---- MODULE Spec2Model ----
(***************************************************************************)
(* A model of the TI-84 style calculator: the expression engine of         *)
(* src/ti84_engine.py (translation, evaluation, memory, history) and the   *)
(* graphing engine of src/graphing_engine.py (sampling, intersections).    *)
(*                                                                         *)
(* Text is a sequence of characters, each character a string.  The three   *)
(* non-ASCII glyphs of the calculator are written "TIMES", "DIVIDE" and    *)
(* "ROOT" (the multiplication, division and square-root signs); each is    *)
(* one character of the text.                                              *)
(*                                                                         *)
(* Numbers are exact rationals [n |-> numerator, d |-> denominator > 0] in *)
(* lowest terms: the rounding of IEEE doubles is not modelled.             *)
(***************************************************************************)
EXTENDS Integers, Sequences, FiniteSets, TLC

VARIABLES
    history_limit,  \* TI84Engine.history_limit
    memory,         \* TI84Engine.memory
    history,        \* TI84Engine.history: sequence of [expression, value]
    call,           \* the last call made on the engine and how it ended
    log,            \* every EvaluationResult evaluate has returned, in order
    expr,           \* translator runs: the raw expression
    pass1,          \* translator runs: prepare_expression(expr)
    pass2,          \* translator runs: prepare_expression of pass1's text
    window,         \* GraphingEngine.window
    graph,          \* the last call made on the graphing engine and its result
    ui              \* CalculatorUI: the buttons' colours, the timers and the entry

vars == <<history_limit, memory, history, call, log, expr, pass1, pass2, window, graph,
          ui>>

(***************************************************************************)
(* Characters.                                                             *)
(***************************************************************************)
Digits == {"0", "1", "2", "3", "4", "5", "6", "7", "8", "9"}

Letters ==
    {"a", "b", "c", "d", "e", "f", "g", "h", "i", "j", "k", "l", "m", "n",
     "o", "p", "q", "r", "s", "t", "u", "v", "w", "x", "y", "z",
     "A", "B", "C", "D", "E", "F", "G", "H", "I", "J", "K", "L", "M", "N",
     "O", "P", "Q", "R", "S", "T", "U", "V", "W", "X", "Y", "Z"}

\* \w of the factorial pattern: letters (the Greek letter pi, written "PI",
\* is one), digits and the underscore
WordChars == Letters \cup Digits \cup {"_", "PI"}

WordChar(c) == c \in WordChars

\* [a-zA-Z_] of the factorial pattern
IdentStart(c) == c \in Letters \cup {"_"}

(***************************************************************************)
(* str.strip and str.replace.                                              *)
(***************************************************************************)
RECURSIVE LStrip(_)
LStrip(s) == IF s # <<>> /\ Head(s) = " " THEN LStrip(Tail(s)) ELSE s

RECURSIVE RStrip(_)
RStrip(s) ==
    IF s # <<>> /\ s[Len(s)] = " " THEN RStrip(SubSeq(s, 1, Len(s) - 1)) ELSE s

Strip(s) == RStrip(LStrip(s))

StartsWith(s, old) == Len(s) >= Len(old) /\ SubSeq(s, 1, Len(old)) = old

\* s.replace(old, new): every non-overlapping occurrence, leftmost first
RECURSIVE Replace(_, _, _)
Replace(s, old, new) ==
    LET found == {i \in 1..Len(s) : StartsWith(SubSeq(s, i, Len(s)), old)}
        Next(i) == SubSeq(s, 1, i - 1) \o new
                       \o Replace(SubSeq(s, i + Len(old), Len(s)), old, new)
    IN IF found = {} THEN s
       ELSE Next(CHOOSE i \in found : \A j \in found : i <= j)

(***************************************************************************)
(* The factorial pattern of prepare_expression:                            *)
(*   (?P<target>(?:\([^()]*\)|\b[a-zA-Z_]\w*\b|\d+(?:\.\d+)?))!            *)
(***************************************************************************)
\* the last index of the run of characters satisfying the class from i on
\* (i - 1 when s[i] is not in the class)
RECURSIVE RunEnd(_, _, _)
RunEnd(s, i, class) ==
    IF i <= Len(s) /\ s[i] \in class THEN RunEnd(s, i + 1, class) ELSE i - 1

CharAt(s, i) == IF i >= 1 /\ i <= Len(s) THEN s[i] ELSE "END"

AllChars(s) == {s[k] : k \in 1..Len(s)}

\* The index of the "!" that ends a match of the pattern starting at i, or 0.
FactorialMatchEnd(s, i) ==
    LET c == CharAt(s, i) IN
    IF c = "("
    THEN LET j == RunEnd(s, i + 1, AllChars(s) \ {"(", ")"}) + 1 IN
         IF CharAt(s, j) = ")" /\ CharAt(s, j + 1) = "!" THEN j + 1 ELSE 0
    ELSE IF IdentStart(c) /\ ~WordChar(CharAt(s, i - 1))
    THEN LET j == RunEnd(s, i, WordChars) IN
         IF CharAt(s, j + 1) = "!" THEN j + 1 ELSE 0
    ELSE IF c \in Digits
    THEN LET j == RunEnd(s, i, Digits) IN
         IF CharAt(s, j + 1) = "!" THEN j + 1
         ELSE IF CharAt(s, j + 1) = "." /\ CharAt(s, j + 2) \in Digits
              THEN LET k == RunEnd(s, j + 2, Digits) IN
                   IF CharAt(s, k + 1) = "!" THEN k + 1 ELSE 0
              ELSE 0
    ELSE 0

FactorialOpen ==
    <<"m", "a", "t", "h", ".", "f", "a", "c", "t", "o", "r", "i", "a", "l",
      "(", "i", "n", "t", "(">>

\* lambda m: f"math.factorial(int({m.group('target')}))"
FactorialCall(target) == FactorialOpen \o target \o <<")", ")">>

\* re.sub(pattern, lambda, expr), scanning from index i
RECURSIVE SubFactorial(_, _)
SubFactorial(s, i) ==
    LET found == {k \in i..Len(s) : FactorialMatchEnd(s, k) > 0}
        Next(k, e) == SubSeq(s, i, k - 1) \o FactorialCall(SubSeq(s, k, e - 1))
                          \o SubFactorial(s, e + 1)
        First(k) == Next(k, FactorialMatchEnd(s, k))
    IN IF found = {} THEN SubSeq(s, i, Len(s))
       ELSE First(CHOOSE k \in found : \A j \in found : k <= j)

(***************************************************************************)
(* TI84Engine.prepare_expression.  The result is [raised, text]: raised is *)
(* "none" or the exception that left the call.                             *)
(***************************************************************************)
AnsToken == <<"A", "n", "s">>

\* self.history[-1].value if self.history else "0"
\* the value of history[0] in place of history[-1]
AnsValueOldest(hist) == IF hist # <<>> THEN hist[1].value ELSE <<"0">>

AnsValue(hist) == IF hist # <<>> THEN hist[Len(hist)].value ELSE <<"0">>

Replacements(hist) ==
    << <<AnsToken, AnsValue(hist)>>,
       << <<"^">>, <<"*", "*">> >>,
       << <<"TIMES">>, <<"*">> >>,
       << <<"DIVIDE">>, <<"/">> >>,
       << <<"ROOT">>, <<"s", "q", "r", "t">> >> >>

RECURSIVE ApplyReplacements(_, _, _)
ApplyReplacements(s, reps, k) ==
    IF k > Len(reps) THEN s
    ELSE ApplyReplacements(Replace(s, reps[k][1], reps[k][2]), reps, k + 1)

prepare_expression(expression, hist) ==
    LET stripped == Strip(expression) IN
    IF stripped = <<>>
    THEN [raised |-> "TI84Error: SYNTAX", text |-> <<>>]
    ELSE [raised |-> "none",
          text |-> SubFactorial(ApplyReplacements(stripped, Replacements(hist), 1), 1)]

(***************************************************************************)
(* Numbers: exact rationals in lowest terms.                               *)
(***************************************************************************)
\* The largest numerator or denominator the model computes with; an
\* evaluation that would pass it is left out of the model ("unmodelled").
NumLimit == 30000

Abs(i) == IF i < 0 THEN -i ELSE i

RECURSIVE GCD(_, _)
GCD(a, b) == IF b = 0 THEN a ELSE GCD(b, a % b)

Rat(n, d) ==
    LET g == GCD(Abs(n), Abs(d))
        sgn == IF d < 0 THEN -1 ELSE 1
    IN [n |-> sgn * (n \div g), d |-> sgn * (d \div g)]

IntRat(i) == [n |-> i, d |-> 1]

InRange(r) == Abs(r.n) <= NumLimit /\ r.d <= NumLimit

RatAdd(a, b) == Rat(a.n * b.d + b.n * a.d, a.d * b.d)
RatSub(a, b) == Rat(a.n * b.d - b.n * a.d, a.d * b.d)
RatMul(a, b) == Rat(a.n * b.n, a.d * b.d)
RatDiv(a, b) == Rat(a.n * b.d, a.d * b.n)
RatNeg(a) == [n |-> -a.n, d |-> a.d]
RatAbs(a) == [n |-> Abs(a.n), d |-> a.d]
RatLess(a, b) == a.n * b.d < b.n * a.d
RatIsInt(a) == a.d = 1

\* a - b * floor(a / b): Python's % takes the sign of the divisor
RatMod(a, b) ==
    LET q == RatDiv(a, b)
        fl == q.n \div q.d
    IN RatSub(a, RatMul(b, IntRat(fl)))

RECURSIVE Pow10(_)
Pow10(k) == IF k = 0 THEN 1 ELSE 10 * Pow10(k - 1)

(***************************************************************************)
(* TI84Engine._format_result.                                              *)
(***************************************************************************)
DigitChar(i) == <<"0", "1", "2", "3", "4", "5", "6", "7", "8", "9">>[i + 1]

\* str(i) for i >= 0
RECURSIVE NatStr(_)
NatStr(i) == IF i < 10 THEN <<DigitChar(i)>> ELSE NatStr(i \div 10) \o <<DigitChar(i % 10)>>

\* str(i)
IntStr(i) == IF i < 0 THEN <<"-">> \o NatStr(-i) ELSE NatStr(i)

\* n / d < 10^(-k), for n >= 0
RECURSIVE BelowPow10Neg(_, _, _)
BelowPow10Neg(n, d, k) ==
    IF k = 0 THEN n < d
    ELSE IF n * 10 >= d THEN FALSE
    ELSE BelowPow10Neg(n * 10, d, k - 1)

\* the X with 10^X <= n / d < 10^(X + 1), for n / d > 0
RECURSIVE Exponent10(_, _)
Exponent10(n, d) ==
    IF n < d THEN Exponent10(n * 10, d) - 1
    ELSE IF n >= 10 * d THEN Exponent10(n, d * 10) + 1
    ELSE 0

\* the first k digits of a / b (1 <= a / b < 10) and the remainder left
RECURSIVE LongDivide(_, _, _)
LongDivide(a, b, k) ==
    IF k = 0 THEN [digits |-> <<>>, rem |-> a]
    ELSE LET rest == LongDivide((a % b) * 10, b, k - 1) IN
         [digits |-> <<a \div b>> \o rest.digits, rem |-> rest.rem]

\* digits + 1 in the last place; carry is TRUE when every digit was a 9
RECURSIVE Increment(_)
Increment(ds) ==
    IF ds = <<>> THEN [digits |-> <<>>, carry |-> TRUE]
    ELSE LET last == ds[Len(ds)]
             front == SubSeq(ds, 1, Len(ds) - 1)
         IN IF last < 9
            THEN [digits |-> Append(front, last + 1), carry |-> FALSE]
            ELSE LET up == Increment(front) IN
                 [digits |-> Append(up.digits, 0), carry |-> up.carry]

RECURSIVE StripZeros(_)
StripZeros(ds) ==
    IF Len(ds) > 1 /\ ds[Len(ds)] = 0 THEN StripZeros(SubSeq(ds, 1, Len(ds) - 1)) ELSE ds

DigitsStr(ds) == [k \in 1..Len(ds) |-> DigitChar(ds[k])]

Zeros(k) == [i \in 1..k |-> "0"]

\* f"{value:.{prec}g}" for value = n / d > 0: prec significant digits, rounded
\* half to even, trailing zeros dropped, the exponent form outside
\* -4 <= exponent < prec
FormatG(n, d, prec) ==
    LET X0 == Exponent10(n, d)
        a == IF X0 < 0 THEN n * Pow10(-X0) ELSE n
        b == IF X0 < 0 THEN d ELSE d * Pow10(X0)
        q == LongDivide(a, b, prec)
        \* q.rem is ten times the remainder after the last digit
        up == \/ 2 * q.rem > 10 * b
              \/ 2 * q.rem = 10 * b /\ q.digits[prec] % 2 = 1
        inc == Increment(q.digits)
        ds0 == IF ~up THEN q.digits
               ELSE IF inc.carry THEN <<1>> \o SubSeq(inc.digits, 1, prec - 1)
               ELSE inc.digits
        X == IF up /\ inc.carry THEN X0 + 1 ELSE X0
        ds == StripZeros(ds0)
        str == DigitsStr(ds)
    IN IF X < -4 \/ X >= prec
       THEN <<str[1]>>
            \o (IF Len(str) > 1 THEN <<".">> \o Tail(str) ELSE <<>>)
            \o <<"e", IF X < 0 THEN "-" ELSE "+">>
            \o (IF Abs(X) < 10 THEN <<"0">> ELSE <<>>) \o NatStr(Abs(X))
       ELSE IF X < 0
       THEN <<"0", ".">> \o Zeros(-X - 1) \o str
       ELSE IF Len(str) <= X + 1
       THEN str \o Zeros(X + 1 - Len(str))
       ELSE SubSeq(str, 1, X + 1) \o <<".">> \o SubSeq(str, X + 2, Len(str))

_format_result(value) ==
    LET v == IF BelowPow10Neg(Abs(value.n), value.d, 10) THEN IntRat(0) ELSE value
    IN IF RatLess(RatAbs(v), IntRat(10000)) /\ RatIsInt(v)
       THEN IntStr(v.n)
       ELSE (IF v.n < 0 THEN <<"-">> ELSE <<>>) \o FormatG(Abs(v.n), v.d, 10)

(***************************************************************************)
(* The expression language of eval(): the tokens and the grammar of the    *)
(* Python expressions the calculator's text translates to.  A text outside *)
(* the modelled fragment (keywords, exponent literals, floor division,     *)
(* star arguments, characters that are not listed) is "unmodelled".        *)
(***************************************************************************)
Keywords ==
    { <<"a", "n", "d">>, <<"a", "s">>, <<"i", "f">>, <<"i", "n">>, <<"i", "s">>,
      <<"o", "r">>, <<"n", "o", "t">>, <<"f", "o", "r">>, <<"d", "e", "f">>,
      <<"d", "e", "l">>, <<"t", "r", "y">>, <<"e", "l", "s", "e">>,
      <<"e", "l", "i", "f">>, <<"f", "r", "o", "m">>, <<"p", "a", "s", "s">>,
      <<"w", "i", "t", "h">>, <<"N", "o", "n", "e">>, <<"T", "r", "u", "e">>,
      <<"F", "a", "l", "s", "e">>, <<"a", "s", "y", "n", "c">>,
      <<"a", "w", "a", "i", "t">>, <<"b", "r", "e", "a", "k">>,
      <<"c", "l", "a", "s", "s">>, <<"r", "a", "i", "s", "e">>,
      <<"w", "h", "i", "l", "e">>, <<"y", "i", "e", "l", "d">>,
      <<"a", "s", "s", "e", "r", "t">>, <<"e", "x", "c", "e", "p", "t">>,
      <<"g", "l", "o", "b", "a", "l">>, <<"i", "m", "p", "o", "r", "t">>,
      <<"l", "a", "m", "b", "d", "a">>, <<"r", "e", "t", "u", "r", "n">>,
      <<"f", "i", "n", "a", "l", "l", "y">>,
      <<"c", "o", "n", "t", "i", "n", "u", "e">>,
      <<"n", "o", "n", "l", "o", "c", "a", "l">> }

\* a character that may start a Python identifier
PyIdentStart(c) == c \in Letters \cup {"_", "PI"}

SingleOps == {"+", "-", "*", "/", "%", "(", ")", ",", "."}

DigitVal(c) == CHOOSE i \in 0..9 : DigitChar(i) = c

RECURSIVE DigitsVal(_)
DigitsVal(ds) ==
    IF ds = <<>> THEN 0
    ELSE 10 * DigitsVal(SubSeq(ds, 1, Len(ds) - 1)) + DigitVal(ds[Len(ds)])

Token(t, s, v, f) == [t |-> t, s |-> s, v |-> v, f |-> f]

NoToken == Token("end", <<>>, IntRat(0), FALSE)

\* the token that starts at s[i], which is not a space: [st, tok, next], st
\* one of ok, syntax, unmodelled, and next the index after the token
Lex(s, i) ==
    LET c == s[i]
        Found(tok, next) == [st |-> "ok", tok |-> tok, next |-> next]
        Stop(st) == [st |-> st, tok |-> NoToken, next |-> i]
    IN
    IF c \in Digits
    THEN LET j == RunEnd(s, i, Digits)
             hasFrac == CharAt(s, j + 1) = "."
             k == IF hasFrac THEN RunEnd(s, j + 2, Digits) ELSE j
             ip == SubSeq(s, i, j)
             fp == IF hasFrac THEN SubSeq(s, j + 2, k) ELSE <<>>
         IN IF \/ PyIdentStart(CharAt(s, k + 1))
               \/ Len(ip) > 5 \/ Len(fp) > 4
               \/ (Len(ip) > 1 /\ ip[1] = "0")
            THEN Stop("unmodelled")
            ELSE LET v == Rat(DigitsVal(ip) * Pow10(Len(fp)) + DigitsVal(fp), Pow10(Len(fp)))
                 IN IF ~InRange(v) THEN Stop("unmodelled")
                    ELSE Found(Token("num", SubSeq(s, i, k), v, hasFrac), k + 1)
    ELSE IF PyIdentStart(c)
    THEN LET j == RunEnd(s, i, WordChars)
             name == SubSeq(s, i, j)
         IN IF name \in Keywords \/ CharAt(s, j + 1) = "\"" THEN Stop("unmodelled")
            ELSE Found(Token("name", name, IntRat(0), FALSE), j + 1)
    ELSE IF c = "*" /\ CharAt(s, i + 1) = "*"
    THEN Found(Token("op", <<"*", "*">>, IntRat(0), FALSE), i + 2)
    ELSE IF c = "/" /\ CharAt(s, i + 1) = "/" THEN Stop("unmodelled")
    ELSE IF c = "." /\ CharAt(s, i + 1) \in Digits THEN Stop("unmodelled")
    ELSE IF c \in SingleOps THEN Found(Token("op", <<c>>, IntRat(0), FALSE), i + 1)
    ELSE IF c = "!" THEN Stop("syntax")
    ELSE IF c = "\""
    THEN LET closing == {k \in (i + 1)..Len(s) : s[k] = "\""} IN
         IF closing = {} THEN Stop("syntax")
         ELSE LET j == CHOOSE k \in closing : \A m \in closing : k <= m IN
              IF CharAt(s, j + 1) = "\"" \/ \E k \in (i + 1)..(j - 1) : s[k] = "\\"
              THEN Stop("unmodelled")
              ELSE Found(Token("str", SubSeq(s, i + 1, j - 1), IntRat(0), FALSE), j + 1)
    ELSE Stop("unmodelled")

\* the tokens of s from index i on, after those of toks: [st, toks], st one
\* of ok, syntax, unmodelled
RECURSIVE Tokenize(_, _, _)
Tokenize(s, i, toks) ==
    LET Lexed(l) ==
            IF l.st = "ok" THEN Tokenize(s, l.next, Append(toks, l.tok))
            ELSE [st |-> l.st, toks |-> <<>>]
    IN CASE i > Len(s) -> [st |-> "ok", toks |-> toks]
         [] i <= Len(s) /\ s[i] = " " -> Tokenize(s, i + 1, toks)
         [] OTHER -> Lexed(Lex(s, i))

(***************************************************************************)
(* The parser.  A node is a tuple: <<"num", v, isFloat>>, <<"name", s>>,   *)
(* <<"neg", e>>, <<"pos", e>>, <<"bin", op, l, r>>, <<"call", f, args>>,   *)
(* <<"attr", e, name>>, <<"tuple", items>>, <<"str", s>>.  A parse is      *)
(* [st, node, pos].                                                        *)
(***************************************************************************)
Tok(toks, p) == IF p <= Len(toks) THEN toks[p] ELSE NoToken

IsOp(toks, p, ops) == Tok(toks, p).t = "op" /\ Tok(toks, p).s \in ops

Parsed(node, pos) == [st |-> "ok", node |-> node, pos |-> pos]

ParseFail(st) == [st |-> st, node |-> <<>>, pos |-> 0]

StarOps == { <<"*">>, <<"*", "*">> }

\* The grammar, one rule per case: P(rule, toks, p, acc) parses from token p;
\* acc is the left operand of the "rest" rules, the node the trailers follow,
\* and the items read so far of "items".
\*   expr:    term (("+" | "-") term)*
\*   term:    factor (("*" | "/" | "%") factor)*
\*   factor:  ("+" | "-") factor | power
\*   power:   atom trailer* ["**" factor]
\*   trailer: "(" items | "." name
\*   items:   [expr ("," expr)* [","]] ")"
\*   atom:    number | name | string | "(" ")" | "(" expr ")"
\*            | "(" expr "," items
RECURSIVE P(_, _, _, _)
P(rule, toks, p, acc) ==
    CASE rule = "expr" ->
        (LET l == P("term", toks, p, <<>>) IN
         IF l.st # "ok" THEN l ELSE P("expr_rest", toks, l.pos, l.node))
      [] rule = "expr_rest" ->
        (IF IsOp(toks, p, { <<"+">>, <<"-">> })
         THEN LET r == P("term", toks, p + 1, <<>>) IN
              IF r.st # "ok" THEN r
              ELSE P("expr_rest", toks, r.pos, <<"bin", toks[p].s, acc, r.node>>)
         ELSE Parsed(acc, p))
      [] rule = "term" ->
        (LET l == P("factor", toks, p, <<>>) IN
         IF l.st # "ok" THEN l ELSE P("term_rest", toks, l.pos, l.node))
      [] rule = "term_rest" ->
        (IF IsOp(toks, p, { <<"*">>, <<"/">>, <<"%">> })
         THEN LET r == P("factor", toks, p + 1, <<>>) IN
              IF r.st # "ok" THEN r
              ELSE P("term_rest", toks, r.pos, <<"bin", toks[p].s, acc, r.node>>)
         ELSE Parsed(acc, p))
      [] rule = "factor" ->
        (IF IsOp(toks, p, { <<"+">>, <<"-">> })
         THEN LET f == P("factor", toks, p + 1, <<>>) IN
              IF f.st # "ok" THEN f
              ELSE Parsed(<<IF toks[p].s = <<"-">> THEN "neg" ELSE "pos", f.node>>, f.pos)
         ELSE P("power", toks, p, <<>>))
      [] rule = "power" ->
        (LET a0 == P("atom", toks, p, <<>>)
             a == IF a0.st # "ok" THEN a0 ELSE P("trailers", toks, a0.pos, a0.node)
         IN IF a.st # "ok" THEN a
            ELSE IF IsOp(toks, a.pos, { <<"*", "*">> })
            THEN LET f == P("factor", toks, a.pos + 1, <<>>) IN
                 IF f.st # "ok" THEN f
                 ELSE Parsed(<<"bin", <<"*", "*">>, a.node, f.node>>, f.pos)
            ELSE a)
      [] rule = "items" ->
        (IF IsOp(toks, p, { <<")">> }) THEN Parsed(acc, p + 1)
         ELSE IF IsOp(toks, p, StarOps) THEN ParseFail("unmodelled")
         ELSE LET e == P("expr", toks, p, <<>>) IN
              IF e.st # "ok" THEN e
              ELSE IF IsOp(toks, e.pos, { <<",">> })
              THEN P("items", toks, e.pos + 1, Append(acc, e.node))
              ELSE IF IsOp(toks, e.pos, { <<")">> })
              THEN Parsed(Append(acc, e.node), e.pos + 1)
              ELSE ParseFail("syntax"))
      [] rule = "trailers" ->
        (IF IsOp(toks, p, { <<"(">> })
         THEN LET args == P("items", toks, p + 1, <<>>) IN
              IF args.st # "ok" THEN args
              ELSE P("trailers", toks, args.pos, <<"call", acc, args.node>>)
         ELSE IF IsOp(toks, p, { <<".">> })
         THEN IF Tok(toks, p + 1).t = "name"
              THEN P("trailers", toks, p + 2, <<"attr", acc, toks[p + 1].s>>)
              ELSE ParseFail("syntax")
         ELSE Parsed(acc, p))
      [] OTHER ->  \* atom
        (LET tok == Tok(toks, p) IN
         IF tok.t = "num" THEN Parsed(<<"num", tok.v, tok.f>>, p + 1)
         ELSE IF tok.t = "name" THEN Parsed(<<"name", tok.s>>, p + 1)
         ELSE IF tok.t = "str"
         THEN IF Tok(toks, p + 1).t = "str" THEN ParseFail("unmodelled")
              ELSE Parsed(<<"str", tok.s>>, p + 1)
         ELSE IF IsOp(toks, p, { <<"(">> })
         THEN IF IsOp(toks, p + 1, StarOps) THEN ParseFail("unmodelled")
              ELSE IF IsOp(toks, p + 1, { <<")">> }) THEN Parsed(<<"tuple", <<>> >>, p + 2)
              ELSE LET e == P("expr", toks, p + 1, <<>>) IN
                   IF e.st # "ok" THEN e
                   ELSE IF IsOp(toks, e.pos, { <<")">> }) THEN Parsed(e.node, e.pos + 1)
                   ELSE IF IsOp(toks, e.pos, { <<",">> })
                   THEN LET rest == P("items", toks, e.pos + 1, <<e.node>>) IN
                        IF rest.st # "ok" THEN rest
                        ELSE Parsed(<<"tuple", rest.node>>, rest.pos)
                   ELSE ParseFail("syntax")
         ELSE ParseFail("syntax"))

ParseExpr(toks, p) == P("expr", toks, p, <<>>)

\* compile(text, "eval"): [st, node]
Parse(text) ==
    LET lexed == Tokenize(text, 1, <<>>) IN
    IF lexed.st # "ok" THEN ParseFail(lexed.st)
    ELSE LET e == ParseExpr(lexed.toks, 1) IN
         IF e.st # "ok" THEN e
         ELSE IF IsOp(lexed.toks, e.pos, { <<",">> }) THEN ParseFail("unmodelled")
         ELSE IF e.pos <= Len(lexed.toks) THEN ParseFail("syntax")
         ELSE e

(***************************************************************************)
(* Evaluation.  A value is [k, v, f, fn]: k is "num" (the rational v, f    *)
(* TRUE for a float and FALSE for an int), "func" (the callable fn),       *)
(* "irrational" (the float constant fn), "module", "dict", "tuple",        *)
(* "raise" (the exception class fn) or "unmodelled"; and, for what an      *)
(* expression reaches through the attributes of the objects it is handed,  *)
(* "str" (the string fn), "builtins" and "sys" (the modules), "frame" (the *)
(* frame of _safe_eval), "locals" (its f_locals), "engine" (the TI84Engine *)
(* that is self in that frame), "list" (its history) and "None".           *)
(***************************************************************************)
Value(k, v, f, fn) == [k |-> k, v |-> v, f |-> f, fn |-> fn]

Num(v, f) == IF InRange(v) THEN Value("num", v, f, "") ELSE Value("unmodelled", IntRat(0), FALSE, "")

Func(fn) == Value("func", IntRat(0), FALSE, fn)

Raise(exc) == Value("raise", IntRat(0), FALSE, exc)

Unmodelled == Value("unmodelled", IntRat(0), FALSE, "")

Other(k) == Value(k, IntRat(0), FALSE, "")

\* the string literals the model evaluates
Str(s) ==
    IF s = <<"s", "y", "s">> THEN Value("str", IntRat(0), FALSE, "sys")
    ELSE IF s = <<"s", "e", "l", "f">> THEN Value("str", IntRat(0), FALSE, "self")
    ELSE Unmodelled

\* the first of the values that is an exception or unmodelled, else none
FirstAbrupt(vals) ==
    LET bad == {i \in 1..Len(vals) : vals[i].k \in {"raise", "unmodelled"}} IN
    IF bad = {} THEN Other("none")
    ELSE vals[CHOOSE i \in bad : \A j \in bad : i <= j]

IsSquare(i) == \E r \in 0..180 : r * r = i

Sqrt(i) == CHOOSE r \in 0..180 : r * r = i

RECURSIVE Factorial(_)
Factorial(i) == IF i <= 1 THEN 1 ELSE i * Factorial(i - 1)

\* b ** e for an integer e >= 0; out of range as soon as a product is
RECURSIVE RatPow(_, _)
RatPow(b, e) ==
    IF e = 0 THEN IntRat(1)
    ELSE LET r == RatPow(b, e - 1) IN
         IF InRange(r) THEN RatMul(r, b) ELSE r

\* left ** right, and pow(left, right)
Power(l, r) ==
    IF ~RatIsInt(r.v)
    THEN (IF l.v.n < 0 THEN Other("complex") ELSE Unmodelled)
    ELSE IF r.v.n >= 0
    THEN IF l.v \in {IntRat(0), IntRat(1)}
         THEN Num(IF r.v.n = 0 THEN IntRat(1) ELSE l.v, l.f \/ r.f)
         ELSE IF r.v.n > 20 THEN Unmodelled
         ELSE Num(RatPow(l.v, r.v.n), l.f \/ r.f)
    ELSE IF l.v.n = 0 THEN Raise("ZeroDivisionError")
    ELSE IF -r.v.n > 20 THEN Unmodelled
    ELSE LET q == RatPow(l.v, -r.v.n) IN
         IF InRange(q) THEN Num(RatDiv(IntRat(1), q), TRUE) ELSE Unmodelled

BinaryOp(op, l, r) ==
    IF l.k \in {"tuple", "irrational", "complex", "str", "list"}
       \/ r.k \in {"tuple", "irrational", "complex", "str", "list"}
    THEN Unmodelled
    ELSE IF l.k # "num" \/ r.k # "num" THEN Raise("TypeError")
    ELSE IF op = <<"+">> THEN Num(RatAdd(l.v, r.v), l.f \/ r.f)
    ELSE IF op = <<"-">> THEN Num(RatSub(l.v, r.v), l.f \/ r.f)
    ELSE IF op = <<"*">> THEN Num(RatMul(l.v, r.v), l.f \/ r.f)
    ELSE IF op = <<"/">>
    THEN IF r.v.n = 0 THEN Raise("ZeroDivisionError") ELSE Num(RatDiv(l.v, r.v), TRUE)
    ELSE IF op = <<"%">>
    THEN IF r.v.n = 0 THEN Raise("ZeroDivisionError")
         ELSE IF ~InRange(RatDiv(l.v, r.v)) THEN Unmodelled
         ELSE Num(RatMod(l.v, r.v), l.f \/ r.f)
    ELSE Power(l, r)

\* the functions of the math module (and abs, pow) on numbers
CallMath(fn, a) ==
    LET x == a[1].v IN
    IF fn = "sqrt"
    THEN IF x.n < 0 THEN Raise("ValueError")
         ELSE IF IsSquare(x.n) /\ IsSquare(x.d) THEN Num(Rat(Sqrt(x.n), Sqrt(x.d)), TRUE)
         ELSE Unmodelled
    ELSE IF fn = "fabs" THEN Num(RatAbs(x), TRUE)
    ELSE IF fn = "abs" THEN Num(RatAbs(x), a[1].f)
    ELSE IF fn = "factorial"
    THEN IF a[1].f THEN Unmodelled
         ELSE IF x.n < 0 THEN Raise("ValueError")
         ELSE IF x.n > 7 THEN Unmodelled
         ELSE Num(IntRat(Factorial(x.n)), FALSE)
    ELSE IF fn = "exp"
    THEN IF x.n = 0 THEN Num(IntRat(1), TRUE)
         ELSE IF ~RatLess(x, IntRat(710)) THEN Raise("OverflowError")
         ELSE Unmodelled
    ELSE IF fn \in {"log", "log10"}
    THEN IF x.n <= 0 THEN Raise("ValueError")
         ELSE IF x = IntRat(1) THEN Num(IntRat(0), TRUE)
         ELSE IF fn = "log10" /\ \E k \in 1..4 : x = IntRat(Pow10(k))
         THEN Num(IntRat(CHOOSE k \in 1..4 : x = IntRat(Pow10(k))), TRUE)
         ELSE Unmodelled
    ELSE IF fn \in {"sin", "tan", "asin", "atan"}
    THEN IF x.n = 0 THEN Num(IntRat(0), TRUE)
         ELSE IF fn = "asin" /\ RatLess(IntRat(1), RatAbs(x)) THEN Raise("ValueError")
         ELSE Unmodelled
    ELSE IF fn = "cos"
    THEN IF x.n = 0 THEN Num(IntRat(1), TRUE) ELSE Unmodelled
    ELSE IF fn = "acos"
    THEN IF RatLess(IntRat(1), RatAbs(x)) THEN Raise("ValueError")
         ELSE IF x = IntRat(1) THEN Num(IntRat(0), TRUE)
         ELSE Unmodelled
    ELSE Unmodelled

\* the callables an expression reaches through attributes: __import__ of
\* builtins, sys._getframe, the get of a frame's f_locals, and the bound
\* methods clear_memory of the engine and clear of its history
ReachedFunctions ==
    {"__import__", "_getframe", "locals.get", "clear_memory", "history.clear"}

CallReached(fn, a) ==
    IF fn = "__import__"
    THEN IF Len(a) = 1 /\ a[1].k = "str" /\ a[1].fn = "sys" THEN Other("sys") ELSE Unmodelled
    ELSE IF fn = "_getframe"
    THEN IF Len(a) = 1 /\ a[1].k = "num" /\ ~a[1].f /\ a[1].v = IntRat(1)
         THEN Other("frame") ELSE Unmodelled
    ELSE IF fn = "locals.get"
    THEN IF Len(a) = 1 /\ a[1].k = "str" /\ a[1].fn = "self" THEN Other("engine")
         ELSE Unmodelled
    ELSE IF a = <<>> THEN Other("None")
    ELSE Raise("TypeError")

\* getattr(v, name) for the attributes the model follows
Attribute(v, name) ==
    IF name = <<"f", "a", "c", "t", "o", "r", "i", "a", "l">>
    THEN (IF v.k = "module" THEN Func("factorial") ELSE Raise("AttributeError"))
    ELSE IF name = <<"_", "_", "s", "e", "l", "f", "_", "_">>
    THEN IF v.k = "func" /\ v.fn \in {"abs", "pow"} THEN Other("builtins") ELSE Unmodelled
    ELSE IF name = <<"_", "_", "i", "m", "p", "o", "r", "t", "_", "_">> /\ v.k = "builtins"
    THEN Func("__import__")
    ELSE IF name = <<"_", "g", "e", "t", "f", "r", "a", "m", "e">> /\ v.k = "sys"
    THEN Func("_getframe")
    ELSE IF name = <<"f", "_", "l", "o", "c", "a", "l", "s">> /\ v.k = "frame"
    THEN Other("locals")
    ELSE IF name = <<"g", "e", "t">> /\ v.k = "locals" THEN Func("locals.get")
    ELSE IF name = <<"c", "l", "e", "a", "r", "_", "m", "e", "m", "o", "r", "y">>
            /\ v.k = "engine"
    THEN Func("clear_memory")
    ELSE IF name = <<"h", "i", "s", "t", "o", "r", "y">> /\ v.k = "engine"
    THEN Other("list")
    ELSE IF name = <<"c", "l", "e", "a", "r">> /\ v.k = "list" THEN Func("history.clear")
    ELSE Unmodelled

Call(f, a) ==
    IF f.k \in {"tuple", "irrational", "complex"}
       \/ \E i \in 1..Len(a) : a[i].k \in {"tuple", "irrational", "complex"}
    THEN Unmodelled
    ELSE IF f.k # "func" THEN Raise("TypeError")
    ELSE IF f.fn \in ReachedFunctions THEN CallReached(f.fn, a)
    ELSE IF f.fn = "pow"
    THEN IF Len(a) = 2
         THEN IF a[1].k = "num" /\ a[2].k = "num" THEN Power(a[1], a[2]) ELSE Raise("TypeError")
         ELSE IF Len(a) = 3 THEN Unmodelled
         ELSE Raise("TypeError")
    ELSE IF Len(a) # 1 THEN (IF f.fn = "log" /\ Len(a) = 2 THEN Unmodelled ELSE Raise("TypeError"))
    ELSE IF a[1].k # "num" THEN Raise("TypeError")
    ELSE CallMath(f.fn, a)

\* env: a set of <<name, value>> pairs, one per name
Bound(env, name) == \E b \in env : b[1] = name

Lookup(env, name) == (CHOOSE b \in env : b[1] = name)[2]

RECURSIVE Eval(_, _), EvalAll(_, _, _)

\* the values of the nodes from index i on, left to right, stopping at the
\* first that raises
EvalAll(nodes, env, i) ==
    IF i > Len(nodes) THEN <<>>
    ELSE LET v == Eval(nodes[i], env) IN
         IF v.k \in {"raise", "unmodelled"} THEN <<v>>
         ELSE <<v>> \o EvalAll(nodes, env, i + 1)

Eval(node, env) ==
    CASE node[1] = "num" -> Num(node[2], node[3])
      [] node[1] = "name" ->
        (IF Bound(env, node[2]) THEN Lookup(env, node[2]) ELSE Raise("NameError"))
      [] node[1] \in {"neg", "pos"} ->
        (LET v == Eval(node[2], env) IN
         IF v.k \in {"raise", "unmodelled"} THEN v
         ELSE IF v.k \in {"irrational", "complex"} THEN Unmodelled
         ELSE IF v.k # "num" THEN Raise("TypeError")
         ELSE IF node[1] = "neg" THEN Num(RatNeg(v.v), v.f) ELSE v)
      [] node[1] = "bin" ->
        (LET vs == EvalAll(<<node[3], node[4]>>, env, 1)
             bad == FirstAbrupt(vs)
         IN IF bad.k # "none" THEN bad ELSE BinaryOp(node[2], vs[1], vs[2]))
      [] node[1] = "call" ->
        (LET vs == EvalAll(<<node[2]>> \o node[3], env, 1)
             bad == FirstAbrupt(vs)
         IN IF bad.k # "none" THEN bad ELSE Call(vs[1], Tail(vs)))
      [] node[1] = "attr" ->
        (LET v == Eval(node[2], env) IN
         IF v.k \in {"raise", "unmodelled"} THEN v ELSE Attribute(v, node[3]))
      [] node[1] = "str" -> Str(node[2])
      [] OTHER ->  \* tuple
        (LET vs == EvalAll(node[2], env, 1)
             bad == FirstAbrupt(vs)
         IN IF bad.k # "none" THEN bad ELSE Other("tuple"))

\* What an evaluation does to the engine besides returning: the calls of
\* clear_memory and of history.clear it makes, in the order it makes them.
\* The operands are evaluated left to right and the first that raises ends
\* the evaluation.
RECURSIVE Effects(_, _), EffectsAll(_, _, _)

EffectsAll(nodes, env, i) ==
    IF i > Len(nodes) THEN <<>>
    ELSE Effects(nodes[i], env)
             \o (IF Eval(nodes[i], env).k \in {"raise", "unmodelled"} THEN <<>>
                 ELSE EffectsAll(nodes, env, i + 1))

Effects(node, env) ==
    CASE node[1] \in {"num", "name", "str"} -> <<>>
      [] node[1] \in {"neg", "pos", "attr"} -> Effects(node[2], env)
      [] node[1] = "bin" -> EffectsAll(<<node[3], node[4]>>, env, 1)
      [] node[1] = "tuple" -> EffectsAll(node[2], env, 1)
      [] OTHER ->  \* call
        (LET Called(vs, before) ==
                 IF /\ FirstAbrupt(vs).k = "none"
                    /\ Len(vs) = 1
                    /\ vs[1].k = "func"
                    /\ vs[1].fn \in {"clear_memory", "history.clear"}
                 THEN Append(before, vs[1].fn)
                 ELSE before
         IN Called(EvalAll(<<node[2]>> \o node[3], env, 1),
                   EffectsAll(<<node[2]>> \o node[3], env, 1)))

(***************************************************************************)
(* TI84Engine: the namespace built by __post_init__, _safe_eval, evaluate, *)
(* evaluate_function, _append_history and the memory operations.           *)
(***************************************************************************)
ErrSyntax == "TI84Error: ERROR: SYNTAX"
ErrMath == "TI84Error: ERROR: MATH"
ErrDivide == "TI84Error: ERROR: DIVIDE BY 0"
ErrOverflow == "TI84Error: ERROR: OVERFLOW"
ErrWindow == "TI84Error: ERROR: WINDOW"
ErrNoFunction == "TI84Error: ERROR: NO FUNCTION"

\* the instances of class TI84Error
TI84Error ==
    {ErrSyntax, ErrMath, ErrDivide, ErrOverflow, ErrWindow, ErrNoFunction}

\* self._functions: getattr(math, name) for the listed names, then ln, log,
\* abs and pow
_functions ==
    { << <<"s", "i", "n">>, Func("sin") >>,
      << <<"c", "o", "s">>, Func("cos") >>,
      << <<"t", "a", "n">>, Func("tan") >>,
      << <<"a", "s", "i", "n">>, Func("asin") >>,
      << <<"a", "c", "o", "s">>, Func("acos") >>,
      << <<"a", "t", "a", "n">>, Func("atan") >>,
      << <<"l", "o", "g", "1", "0">>, Func("log10") >>,
      << <<"s", "q", "r", "t">>, Func("sqrt") >>,
      << <<"f", "a", "c", "t", "o", "r", "i", "a", "l">>, Func("factorial") >>,
      << <<"f", "a", "b", "s">>, Func("fabs") >>,
      << <<"e", "x", "p">>, Func("exp") >>,
      << <<"l", "n">>, Func("log") >>,
      << <<"l", "o", "g">>, Func("log10") >>,
      << <<"a", "b", "s">>, Func("abs") >>,
      << <<"p", "o", "w">>, Func("pow") >> }

\* self._constants
_constants ==
    { << <<"p", "i">>, Value("irrational", IntRat(0), TRUE, "pi") >>,
      << <<"PI">>, Value("irrational", IntRat(0), TRUE, "pi") >>,
      << <<"e">>, Value("irrational", IntRat(0), TRUE, "e") >> }

\* the globals handed to eval: {"__builtins__": {}}
EvalGlobals == { << <<"_", "_", "b", "u", "i", "l", "t", "i", "n", "s", "_", "_">>, Other("dict") >> }

\* dict.update: the pairs of extra replace those of the same name
Update(env, extra) == {b \in env : ~Bound(extra, b[1])} \cup extra

\* allowed_names without allowed_names.update(extra_context)
AllowedNamesWithoutContext(mem, extra_context) ==
    _functions \cup _constants
        \cup { << <<"m", "a", "t", "h">>, Other("module") >>, << <<"M">>, Num(mem, TRUE) >> }

\* allowed_names of _safe_eval
AllowedNames(mem, extra_context) ==
    Update(_functions \cup _constants
               \cup { << <<"m", "a", "t", "h">>, Other("module") >>,
                      << <<"M">>, Num(mem, TRUE) >> },
           extra_context)

\* the names eval resolves: the locals first, then the globals
Namespace(mem, extra_context) ==
    LET locals == AllowedNames(mem, extra_context) IN
    locals \cup {g \in EvalGlobals : ~Bound(locals, g[1])}

\* the value returned, or the exception that leaves the call
_safe_eval(expression, extra_context, mem) ==
    LET Float(result) ==
            IF result.k = "raise"
            THEN IF result.fn = "NameError" THEN Raise(ErrSyntax) ELSE result
            ELSE IF result.k = "unmodelled" THEN Unmodelled
            ELSE IF result.k = "irrational" THEN result
            ELSE IF result.k = "num" THEN Num(result.v, TRUE)
            ELSE IF result.k = "str" THEN Raise("ValueError")
            ELSE Raise("TypeError")
        Evaluated(parsed) ==
            IF parsed.st = "unmodelled" THEN Unmodelled
            ELSE IF parsed.st = "syntax" THEN Raise("SyntaxError")
            ELSE Float(Eval(parsed.node, Namespace(mem, extra_context)))
    IN Evaluated(Parse(expression))

\* the fields of self an evaluation can reach
EngineState(mem, hist) == [memory |-> mem, history |-> hist]

\* self after the calls in effects: clear_memory stores 0.0, history.clear
\* empties the list
RECURSIVE Mutate(_, _)
Mutate(state, effects) ==
    IF effects = <<>> THEN state
    ELSE Mutate(IF Head(effects) = "clear_memory"
                THEN [state EXCEPT !.memory = IntRat(0)]
                ELSE [state EXCEPT !.history = <<>>],
                Tail(effects))

\* self after the eval of _safe_eval
after_safe_eval(expression, extra_context, hist, mem) ==
    LET Evaluated(parsed) ==
            IF parsed.st # "ok" THEN EngineState(mem, hist)
            ELSE Mutate(EngineState(mem, hist),
                        Effects(parsed.node, Namespace(mem, extra_context)))
    IN Evaluated(Parse(expression))

\* _format_result of a float: of the two irrational constants, the digits
\* Python prints for math.pi and math.e
FormatValue(result) ==
    IF result.k = "irrational"
    THEN IF result.fn = "pi"
         THEN <<"3", ".", "1", "4", "1", "5", "9", "2", "6", "5", "4">>
         ELSE <<"2", ".", "7", "1", "8", "2", "8", "1", "8", "2", "8">>
    ELSE _format_result(result.v)

\* seq[start:] of Python
SliceFrom(seq, start) ==
    LET from == IF start < 0 THEN (IF Len(seq) + start < 0 THEN 0 ELSE Len(seq) + start)
                ELSE IF start > Len(seq) THEN Len(seq) ELSE start
    IN SubSeq(seq, from + 1, Len(seq))

EvaluationResult(expression, value) == [expression |-> expression, value |-> value]

_append_history(hist, limit, expression, value) ==
    LET appended == Append(hist, EvaluationResult(expression, value)) IN
    IF Len(appended) > limit THEN SliceFrom(appended, -limit) ELSE appended

\* the try/except of evaluate: the TI84Error raised for an exception of
\* _safe_eval
Classify(exc) ==
    IF exc = "ZeroDivisionError" THEN ErrDivide
    ELSE IF exc = "ValueError" THEN ErrMath
    ELSE IF exc = "OverflowError" THEN ErrOverflow
    ELSE ErrSyntax

\* evaluate with the entry appended before the expression is evaluated, so
\* that a failing call leaves it in the history
evaluate_appending_first(expression, hist, limit, mem) ==
    LET Tried(cleaned, result, after) ==
            IF result.k = "unmodelled"
            THEN [raised |-> "unmodelled", value |-> <<>>, history |-> hist,
                  cleaned |-> cleaned, exc |-> "none", memory |-> mem]
            ELSE IF result.k = "raise"
            THEN [raised |-> Classify(result.fn), value |-> <<>>,
                  history |-> _append_history(after.history, limit, expression, <<>>),
                  cleaned |-> cleaned, exc |-> result.fn, memory |-> after.memory]
            ELSE [raised |-> "none", value |-> FormatValue(result),
                  history |-> _append_history(after.history, limit, expression,
                                              FormatValue(result)),
                  cleaned |-> cleaned, exc |-> "none", memory |-> after.memory]
        Prepared(cleaned) ==
            IF cleaned.raised # "none"
            THEN [raised |-> ErrSyntax, value |-> <<>>,
                  history |-> _append_history(hist, limit, expression, <<>>),
                  cleaned |-> <<>>, exc |-> "none", memory |-> mem]
            ELSE Tried(cleaned.text, _safe_eval(cleaned.text, {}, mem),
                       after_safe_eval(cleaned.text, {}, hist, mem))
    IN Prepared(prepare_expression(expression, hist))

\* [raised, value, history, cleaned, exc, memory]: the exception that leaves
\* the call ("none" when it returns), the value of the EvaluationResult
\* returned, the history and the memory after the call, and two locals of the
\* call: the translated text and the exception _safe_eval raised ("none"
\* when it returned)
evaluate(expression, hist, limit, mem) ==
    LET Returned(cleaned, result_str, after) ==
            [raised |-> "none", value |-> result_str,
             history |-> _append_history(after.history, limit, expression, result_str),
             cleaned |-> cleaned, exc |-> "none", memory |-> after.memory]
        Tried(cleaned, result, after) ==
            IF result.k = "unmodelled"
            THEN [raised |-> "unmodelled", value |-> <<>>, history |-> hist,
                  cleaned |-> cleaned, exc |-> "none", memory |-> mem]
            ELSE IF result.k = "raise"
            THEN [raised |-> Classify(result.fn), value |-> <<>>,
                  history |-> after.history, cleaned |-> cleaned, exc |-> result.fn,
                  memory |-> after.memory]
            ELSE Returned(cleaned, FormatValue(result), after)
        Prepared(cleaned) ==
            IF cleaned.raised # "none"
            THEN [raised |-> ErrSyntax, value |-> <<>>, history |-> hist,
                  cleaned |-> <<>>, exc |-> "none", memory |-> mem]
            ELSE Tried(cleaned.text, _safe_eval(cleaned.text, {}, mem),
                       after_safe_eval(cleaned.text, {}, hist, mem))
    IN Prepared(prepare_expression(expression, hist))

\* the float returned, or the exception that leaves the call
evaluate_function(expression, x_value, hist, mem) ==
    LET Prepared(cleaned) ==
            IF cleaned.raised # "none" THEN Raise(ErrSyntax)
            ELSE _safe_eval(cleaned.text, { << <<"x">>, Num(x_value, TRUE) >> }, mem)
    IN Prepared(prepare_expression(expression, hist))

\* self after evaluate_function
after_evaluate_function(expression, x_value, hist, mem) ==
    LET Prepared(cleaned) ==
            IF cleaned.raised # "none" THEN EngineState(mem, hist)
            ELSE after_safe_eval(cleaned.text, { << <<"x">>, Num(x_value, TRUE) >> },
                                 hist, mem)
    IN Prepared(prepare_expression(expression, hist))

(***************************************************************************)
(* The engine as a state machine: one action per public method of          *)
(* TI84Engine.  The expressions entered are drawn from Expressions.        *)
(***************************************************************************)
\* the largest history_limit an engine is constructed with
MaxLimit == 2

\* the number of calls made on one engine
MaxCalls == 3

ThreePlusFour == <<"3", "+", "4">>
AnsTimesTwo == <<"A", "n", "s", "TIMES", "2">>
AnsAlone == <<"A", "n", "s">>
AnsMinusNine == <<"A", "n", "s", "-", "9">>
OneOverZero == <<"1", "DIVIDE", "0">>
OneModZero == <<"1", "%", "0">>
OneEighth == <<"1", "/", "8">>
RootOfMinusOne == <<"ROOT", "(", "-", "1", ")">>
UnknownName == <<"q">>
Blank == <<" ">>
Unfinished == <<"3", "+">>
FiveFactorial == <<"5", "!">>
GroupFactorial == <<"(", "2", "+", "3", ")", "!">>
MinusOneFactorial == <<"-", "1", "!">>
FactorialOfFive == <<"f", "a", "c", "t", "o", "r", "i", "a", "l", "(", "5", ")">>
FactorialOfMinusOne == <<"f", "a", "c", "t", "o", "r", "i", "a", "l", "(", "-", "1", ")">>
ExpOverflow == <<"e", "x", "p", "(", "9", "9", "9", ")">>
MemoryName == <<"M">>
TwoCubed == <<"2", "^", "3">>
PowOfMinusFour == <<"p", "o", "w", "(", "-", "4", ",", "0", ".", "5", ")">>

Expressions ==
    { ThreePlusFour, AnsTimesTwo, AnsAlone, AnsMinusNine, OneOverZero, OneModZero,
      OneEighth, RootOfMinusOne, UnknownName, Blank, Unfinished, FiveFactorial,
      GroupFactorial, MinusOneFactorial, FactorialOfFive, FactorialOfMinusOne,
      ExpOverflow, MemoryName, TwoCubed, PowOfMinusFour }

\* the amounts added to and subtracted from the memory
Amounts == { IntRat(1), Rat(1, 2) }

\* the values of x evaluate_function is called with
XValues == { IntRat(-1), IntRat(0), IntRat(2) }

CallRecord(op, expression, r, n) ==
    [op |-> op, expression |-> expression, raised |-> r.raised, value |-> r.value,
     cleaned |-> r.cleaned, exc |-> r.exc, n |-> n]

NoResult == [raised |-> "none", value |-> <<>>, cleaned |-> <<>>, exc |-> "none"]

\* the default GraphWindow
GraphWindow(xmin, xmax, ymin, ymax) ==
    [xmin |-> xmin, xmax |-> xmax, ymin |-> ymin, ymax |-> ymax]

DefaultWindow == GraphWindow(IntRat(-10), IntRat(10), IntRat(-10), IntRat(10))

\* the last call made on the GraphingEngine: its arguments, the exception
\* that left it ("none" when it returned), and the list it returned
GraphCall(op, expr_a, expr_b, xs, raised, values, points, n) ==
    [op |-> op, expr_a |-> expr_a, expr_b |-> expr_b, xs |-> xs,
     raised |-> raised, values |-> values, points |-> points, n |-> n]

NoGraphCall == GraphCall("none", <<>>, <<>>, <<>>, "none", <<>>, <<>>, 0)

\* a pass of the translator that has not run
NoPass == [raised |-> "pending", text |-> <<>>]

\* the keypad buttons pressed: the labels of self.buttons, UP being the
\* upward arrow
Buttons == {"7", "+", "DEL", "CLEAR", "ENTER", "UP"}

\* the bg every keypad button is created with, and the bg of a pressed one
KeypadColour == "#2a2a2a"
HighlightColour == "#5a5a5a"

\* what display_var holds: a text, or the message of a TI84Error
Shown(text) == [error |-> "none", text |-> text]
ShownError(raised) == [error |-> raised, text |-> <<>>]

\* CalculatorUI after __init__: bg is the colour of each button, pending the
\* callbacks registered with master.after in the order they are due,
\* cursor is _history_cursor (0 standing for None, i + 1 for index i),
\* presses counts the calls of _on_button_press
CalculatorUI ==
    [bg |-> [b \in Buttons |-> KeypadColour], pending |-> <<>>,
     expression |-> <<>>, display |-> Shown(<<"0">>), cursor |-> 0, presses |-> 0]

\* the variables the engine's specification leaves alone
EngineIdle ==
    /\ expr = <<>> /\ pass1 = NoPass /\ pass2 = NoPass
    /\ window = DefaultWindow /\ graph = NoGraphCall /\ ui = CalculatorUI

Init ==
    /\ history_limit \in 0..MaxLimit
    /\ memory = IntRat(0)
    /\ history = <<>>
    /\ log = <<>>
    /\ call = CallRecord("init", <<>>, NoResult, 0)
    /\ EngineIdle

Evaluate(e) ==
    /\ call.n < MaxCalls
    /\ \E r \in { evaluate(e, history, history_limit, memory) } :
            /\ r.raised # "unmodelled"
            /\ history' = r.history
            /\ memory' = r.memory
            /\ log' = IF r.raised = "none"
                      THEN Append(log, EvaluationResult(e, r.value)) ELSE log
            /\ call' = CallRecord("evaluate", e, r, call.n + 1)
            /\ UNCHANGED <<history_limit, expr, pass1, pass2, window, graph, ui>>

EvaluateFunction(e, x) ==
    /\ call.n < MaxCalls
    /\ \E r \in { evaluate_function(e, x, history, memory) },
          after \in { after_evaluate_function(e, x, history, memory) } :
            /\ r.k # "unmodelled"
            /\ memory' = after.memory
            /\ history' = after.history
            /\ call' = CallRecord("evaluate_function", e,
                            [raised |-> IF r.k = "raise" THEN r.fn ELSE "none",
                             value |-> IF r.k = "raise" THEN <<>> ELSE FormatValue(r),
                             cleaned |-> prepare_expression(e, history).text,
                             exc |-> IF r.k = "raise" THEN r.fn ELSE "none"],
                            call.n + 1)
            /\ UNCHANGED <<history_limit, log, expr, pass1, pass2, window, graph, ui>>

AddToMemory(v) ==
    /\ call.n < MaxCalls
    /\ memory' = RatAdd(memory, v)
    /\ call' = CallRecord("add_to_memory", <<>>, NoResult, call.n + 1)
    /\ UNCHANGED <<history_limit, history, log, expr, pass1, pass2, window, graph, ui>>

SubtractFromMemory(v) ==
    /\ call.n < MaxCalls
    /\ memory' = RatSub(memory, v)
    /\ call' = CallRecord("subtract_from_memory", <<>>, NoResult, call.n + 1)
    /\ UNCHANGED <<history_limit, history, log, expr, pass1, pass2, window, graph, ui>>

ClearMemory ==
    /\ call.n < MaxCalls
    /\ memory' = IntRat(0)
    /\ call' = CallRecord("clear_memory", <<>>, NoResult, call.n + 1)
    /\ UNCHANGED <<history_limit, history, log, expr, pass1, pass2, window, graph, ui>>

RecallMemory ==
    /\ call.n < MaxCalls
    /\ call' = CallRecord("recall_memory", <<>>, NoResult, call.n + 1)
    /\ UNCHANGED <<history_limit, memory, history, log, expr, pass1, pass2, window, graph, ui>>

Next ==
    \/ \E e \in Expressions : Evaluate(e)
    \/ \E e \in {MemoryName, UnknownName, OneOverZero}, x \in XValues : EvaluateFunction(e, x)
    \/ \E v \in Amounts : AddToMemory(v)
    \/ \E v \in Amounts : SubtractFromMemory(v)
    \/ ClearMemory
    \/ RecallMemory

Spec == Init /\ [][Next]_vars

(***************************************************************************)
(* Properties of the engine.                                               *)
(***************************************************************************)
Min(a, b) == IF a < b THEN a ELSE b

\* the value Ans stands for: that of the last successful evaluation, else 0
LastAnswer == IF log = <<>> THEN <<"0">> ELSE log[Len(log)].value

\* C1: for every history_limit >= 0 the history never holds more than
\* history_limit entries, and it holds exactly the most recent history_limit
\* successful results, in insertion order.
HistoryWithinLimit ==
    /\ Len(history) <= history_limit
    /\ history = SubSeq(log, Len(log) - Min(history_limit, Len(log)) + 1, Len(log))

ErrorsClassified ==
    call.op = "evaluate" =>
        /\ call.raised \in {"none", ErrSyntax, ErrMath, ErrDivide, ErrOverflow}
        /\ call.expression \in {OneOverZero, OneModZero} => call.raised = ErrDivide
        /\ call.expression \in {RootOfMinusOne, FactorialOfMinusOne, PowOfMinusFour}
               => call.raised = ErrMath
        /\ call.expression \in {Blank, Unfinished, UnknownName} => call.raised = ErrSyntax

FactorialExamples ==
    call.op = "evaluate" =>
        /\ call.expression \in {FiveFactorial, GroupFactorial}
               => (call.raised = "none" /\ call.value = <<"1", "2", "0">>)
        /\ call.expression = MinusOneFactorial => call.raised = ErrMath

(***************************************************************************)
(* The translator alone: prepare_expression applied to an input, and then  *)
(* to its own output, with the history fixed.                              *)
(***************************************************************************)
\* the longest input enumerated character by character
MaxLen == 3

TranslatorAlphabet ==
    {"A", "n", "s", "^", "TIMES", "DIVIDE", "ROOT", "!", "(", ")", "1", "x"}

NestedGroupFactorial == <<"(", "(", "1", ")", ")", "!">>
FactorialOfFactorial == <<"(", "3", "!", ")", "!">>
RootOfAns == <<"ROOT", "(", "A", "n", "s", ")", "^", "2">>
NameFactorial == <<"2", "TIMES", "x", "!", "DIVIDE", "3">>
SumFactorial == <<"(", "x", "+", "1", ")", "!", "+", "n", "!">>
Padded == <<" ", "A", "n", "s", " ">>

TranslatorInputs ==
    UNION { [1..k -> TranslatorAlphabet] : k \in 1..MaxLen }
        \cup { NestedGroupFactorial, FactorialOfFactorial, RootOfAns, NameFactorial,
               SumFactorial, Padded, Blank, GroupFactorial, FiveFactorial,
               MinusOneFactorial }

\* the histories the translator reads Ans from
TranslatorHistories ==
    { <<>>, <<EvaluationResult(ThreePlusFour, <<"7">>)>> }

TranslatorInit ==
    /\ history_limit = MaxLimit
    /\ memory = IntRat(0)
    /\ history \in TranslatorHistories
    /\ log = history
    /\ call = CallRecord("init", <<>>, NoResult, 0)
    /\ expr \in TranslatorInputs
    /\ pass1 = NoPass /\ pass2 = NoPass
    /\ window = DefaultWindow /\ graph = NoGraphCall /\ ui = CalculatorUI

\* prepare_expression(expr)
Translate ==
    /\ pass1 = NoPass
    /\ pass1' = prepare_expression(expr, history)
    /\ UNCHANGED <<history_limit, memory, history, log, call, expr, pass2, window, graph, ui>>

\* prepare_expression(prepare_expression(expr))
TranslateAgain ==
    /\ pass1.raised = "none"
    /\ pass2 = NoPass
    /\ pass2' = prepare_expression(pass1.text, history)
    /\ UNCHANGED <<history_limit, memory, history, log, call, expr, pass1, window, graph, ui>>

TranslatorNext == Translate \/ TranslateAgain

TranslatorSpec == TranslatorInit /\ [][TranslatorNext]_vars

(***************************************************************************)
(* Properties of the translator.                                           *)
(***************************************************************************)
\* the index of the "(" that the ")" at index i closes, 0 when there is none;
\* depth counts the ")" met from i leftwards and not yet opened
RECURSIVE MatchingOpen(_, _, _)
MatchingOpen(s, i, depth) ==
    IF i < 1 THEN 0
    ELSE IF s[i] = ")" THEN MatchingOpen(s, i - 1, depth + 1)
    ELSE IF s[i] = "("
    THEN (IF depth = 1 THEN i ELSE MatchingOpen(s, i - 1, depth - 1))
    ELSE MatchingOpen(s, i - 1, depth)

\* the index at which the run of word characters and dots ending at i starts
RECURSIVE RunStart(_, _)
RunStart(s, i) ==
    IF i >= 1 /\ (WordChar(s[i]) \/ s[i] = ".") THEN RunStart(s, i - 1) ELSE i + 1

IsIdentifier(w) ==
    w # <<>> /\ IdentStart(w[1]) /\ \A k \in 1..Len(w) : WordChar(w[k])

\* digits, optionally with a decimal point between digits
IsNumericLiteral(w) ==
    /\ w # <<>>
    /\ \A k \in 1..Len(w) : w[k] \in Digits \cup {"."}
    /\ Cardinality({k \in 1..Len(w) : w[k] = "."}) <= 1
    /\ w[1] # "." /\ w[Len(w)] # "."

\* the "!" at index i immediately follows a parenthesized group, a bare
\* identifier or a numeric literal
FollowsOperand(s, i) ==
    /\ i > 1
    /\ \/ s[i - 1] = ")" /\ MatchingOpen(s, i - 1, 0) > 0
       \/ LET w == SubSeq(s, RunStart(s, i - 1), i - 1) IN
          IsIdentifier(w) \/ IsNumericLiteral(w)

FactorialsFollowOperands(s) ==
    \A i \in 1..Len(s) : s[i] = "!" => FollowsOperand(s, i)

Contains(s, sub) ==
    \E i \in 1..(Len(s) - Len(sub) + 1) : SubSeq(s, i, i + Len(sub) - 1) = sub

\* no Ans, ^, multiplication sign, division sign, root sign or ! in the text
NoGlyph(text) ==
    /\ ~Contains(text, AnsToken)
    /\ \A k \in 1..Len(text) : text[k] \notin {"^", "TIMES", "DIVIDE", "ROOT", "!"}

\* C8: when every "!" of a non-empty input follows a parenthesized group
\* (nested groups included), an identifier or a numeric literal, one pass of
\* prepare_expression leaves no calculator-only glyph in the text.
OnePassLeavesNoGlyph ==
    (pass1.raised = "none" /\ FactorialsFollowOperands(Strip(expr)))
        => NoGlyph(pass1.text)

\* C9: prepare_expression is idempotent: a second pass over the text of the
\* first returns that text.
TranslatorIdempotent ==
    pass2 # NoPass => pass2 = pass1

(***************************************************************************)
(* The graphing engine: the window, the sampling of one expression and the *)
(* search for the intersections of two.  A float is a rational here, and   *)
(* float("nan") the record NaN.                                            *)
(***************************************************************************)
NaN == [n |-> 0, d |-> 0]

IsNaN(v) == v.d = 0

\* [start + step * i for i in range(count)]
_generate_points(start, stop, count) ==
    LET step == RatDiv(RatSub(stop, start), IntRat(IF count - 1 > 1 THEN count - 1 ELSE 1))
    IN [i \in 1..count |-> RatAdd(start, RatMul(step, IntRat(i - 1)))]

\* the loop of _evaluate_series from xs[i] on, values being the list so far:
\* [raised, values, memory, history], raised the exception that leaves the
\* loop, memory and history those of the calculator after it
RECURSIVE SeriesLoop(_, _, _, _, _, _)
SeriesLoop(expression, xs, i, values, hist, mem) ==
    IF i > Len(xs)
    THEN [raised |-> "none", values |-> values, memory |-> mem, history |-> hist]
    ELSE LET Left(ex, after) ==
                 [raised |-> ex, values |-> values,
                  memory |-> after.memory, history |-> after.history]
             Sampled(y_value, after) ==
                 IF y_value.k \in {"unmodelled", "irrational"}
                 THEN Left("unmodelled", after)
                 ELSE IF y_value.k = "raise"
                 THEN IF y_value.fn \in TI84Error
                      THEN SeriesLoop(expression, xs, i + 1, Append(values, NaN),
                                      after.history, after.memory)
                      ELSE Left(y_value.fn, after)
                 ELSE SeriesLoop(expression, xs, i + 1, Append(values, y_value.v),
                                 after.history, after.memory)
         IN Sampled(evaluate_function(expression, xs[i], hist, mem),
                    after_evaluate_function(expression, xs[i], hist, mem))

_evaluate_series(expression, xs, hist, mem) ==
    SeriesLoop(expression, xs, 1, <<>>, hist, mem)

\* last_diff, last_x and last_y: None before the first valid sample
NoLast == [set |-> FALSE, diff |-> IntRat(0), x |-> IntRat(0), y |-> IntRat(0)]

\* from + (to - from) * proportion
Interpolate(from, to, proportion) ==
    RatAdd(from, RatMul(RatSub(to, from), proportion))

\* the interpolation stays within the numbers the model computes with
CanInterpolate(from, to, proportion) ==
    /\ InRange(RatSub(to, from))
    /\ InRange(RatMul(RatSub(to, from), proportion))
    /\ InRange(Interpolate(from, to, proportion))

\* the loop of _find_intersections from xs[i] on: [raised, points, memory,
\* history].  The difference of two rationals is never nan or inf.  expr_b
\* is evaluated on the calculator as the evaluation of expr_a left it, and
\* only when that evaluation returned.
RECURSIVE IntersectionLoop(_, _, _, _, _, _, _, _)
IntersectionLoop(expr_a, expr_b, xs, i, last, intersections, hist, mem) ==
    IF i > Len(xs)
    THEN [raised |-> "none", points |-> intersections, memory |-> mem, history |-> hist]
    ELSE LET x_value == xs[i]
             Continue(now, found, after) ==
                 IntersectionLoop(expr_a, expr_b, xs, i + 1, now, found,
                                  after.history, after.memory)
             Left(ex, after) ==
                 [raised |-> ex, points |-> intersections,
                  memory |-> after.memory, history |-> after.history]
             Crossing(y_a, diff, proportion, after) ==
                 IF ~InRange(proportion)
                    \/ ~CanInterpolate(last.x, x_value, proportion)
                    \/ ~CanInterpolate(last.y, y_a, proportion)
                 THEN Left("unmodelled", after)
                 ELSE Continue([set |-> TRUE, diff |-> diff, x |-> x_value, y |-> y_a],
                               Append(intersections,
                                      <<Interpolate(last.x, x_value, proportion),
                                        Interpolate(last.y, y_a, proportion)>>),
                               after)
             Differ(y_a, diff, after) ==
                 IF ~InRange(diff) THEN Left("unmodelled", after)
                 ELSE IF last.set /\ diff.n = 0
                 THEN Continue([set |-> TRUE, diff |-> diff, x |-> x_value, y |-> y_a],
                               Append(intersections, <<x_value, y_a>>), after)
                 ELSE IF last.set /\ (diff.n > 0) # (last.diff.n > 0)
                 THEN Crossing(y_a, diff,
                               RatDiv(RatAbs(last.diff),
                                      RatAdd(RatAbs(last.diff), RatAbs(diff))),
                               after)
                 ELSE Continue([set |-> TRUE, diff |-> diff, x |-> x_value, y |-> y_a],
                               intersections, after)
             Second(y_a, y_b, after) ==
                 IF y_b.k \in {"unmodelled", "irrational"} THEN Left("unmodelled", after)
                 ELSE IF y_b.k = "raise"
                 THEN (IF y_b.fn \in TI84Error THEN Continue(last, intersections, after)
                       ELSE Left(y_b.fn, after))
                 ELSE Differ(y_a.v, RatSub(y_a.v, y_b.v), after)
             First(y_a, after) ==
                 IF y_a.k \in {"unmodelled", "irrational"} THEN Left("unmodelled", after)
                 ELSE IF y_a.k = "raise"
                 THEN (IF y_a.fn \in TI84Error THEN Continue(last, intersections, after)
                       ELSE Left(y_a.fn, after))
                 ELSE Second(y_a,
                             evaluate_function(expr_b, x_value, after.history, after.memory),
                             after_evaluate_function(expr_b, x_value, after.history,
                                                     after.memory))
         IN First(evaluate_function(expr_a, x_value, hist, mem),
                  after_evaluate_function(expr_a, x_value, hist, mem))

_find_intersections(expr_a, expr_b, xs, hist, mem) ==
    IntersectionLoop(expr_a, expr_b, xs, 1, NoLast, <<>>, hist, mem)

\* the largest number of samples asked for
MaxSamples == 4

\* the number of calls made on one graphing engine
MaxGraphCalls == 2

XAlone == <<"x">>
MinusX == <<"-", "x">>
OneOverX == <<"1", "/", "x">>
RootOfX == <<"ROOT", "(", "x", ")">>
XSquared == <<"x", "^", "2">>
Zero == <<"0">>

\* the expressions sampled
SeriesExpressions ==
    { XAlone, OneOverX, RootOfX, XSquared, UnknownName, Unfinished, Blank,
      ExpOverflow }

\* the expressions intersected
PairExpressions == { XAlone, MinusX, Zero }

\* the bounds a window is set to
WindowBounds == { IntRat(-10), IntRat(0), IntRat(10) }

GraphInit ==
    /\ history_limit = MaxLimit
    /\ memory = IntRat(0)
    /\ history = <<>>
    /\ log = <<>>
    /\ call = CallRecord("init", <<>>, NoResult, 0)
    /\ expr = <<>> /\ pass1 = NoPass /\ pass2 = NoPass
    /\ window = DefaultWindow
    /\ graph = NoGraphCall /\ ui = CalculatorUI

\* a >= b on floats: false as soon as one of them is nan
FloatGe(a, b) == ~IsNaN(a) /\ ~IsNaN(b) /\ ~RatLess(a, b)

\* set_window that stores the bounds of the x axis before it looks at those
\* of the y axis
set_window_axis_by_axis(current, xmin, xmax, ymin, ymax) ==
    IF FloatGe(xmin, xmax) THEN [raised |-> ErrWindow, window |-> current]
    ELSE IF FloatGe(ymin, ymax)
    THEN [raised |-> ErrWindow,
          window |-> GraphWindow(xmin, xmax, current.ymin, current.ymax)]
    ELSE [raised |-> "none", window |-> GraphWindow(xmin, xmax, ymin, ymax)]

\* [raised, window]: the exception that leaves the call and self.window
\* after it
set_window(current, xmin, xmax, ymin, ymax) ==
    IF FloatGe(xmin, xmax) \/ FloatGe(ymin, ymax)
    THEN [raised |-> ErrWindow, window |-> current]
    ELSE [raised |-> "none", window |-> GraphWindow(xmin, xmax, ymin, ymax)]

\* the call record keeps the four arguments in xs
SetWindow(xmin, xmax, ymin, ymax) ==
    /\ graph.n < MaxGraphCalls
    /\ \E r \in { set_window(window, xmin, xmax, ymin, ymax) } :
            /\ window' = r.window
            /\ graph' = GraphCall("set_window", <<>>, <<>>, <<xmin, xmax, ymin, ymax>>,
                                  r.raised, <<>>, <<>>, graph.n + 1)
    /\ UNCHANGED <<history_limit, memory, history, log, call, expr, pass1, pass2, ui>>

AutoWindow ==
    /\ graph.n < MaxGraphCalls
    /\ window' = GraphWindow(IntRat(-10), IntRat(10), IntRat(-10), IntRat(10))
    /\ graph' = GraphCall("auto_window", <<>>, <<>>, <<>>, "none", <<>>, <<>>, graph.n + 1)
    /\ UNCHANGED <<history_limit, memory, history, log, call, expr, pass1, pass2, ui>>

\* _evaluate_series over count points of the window
EvaluateSeries(expression, count) ==
    /\ graph.n < MaxGraphCalls
    /\ \E xs \in { _generate_points(window.xmin, window.xmax, count) } :
       \E r \in { _evaluate_series(expression, xs, history, memory) } :
            /\ r.raised # "unmodelled"
            /\ graph' = GraphCall("_evaluate_series", expression, <<>>, xs, r.raised,
                                  r.values, <<>>, graph.n + 1)
            /\ memory' = r.memory
            /\ history' = r.history
            /\ UNCHANGED <<history_limit, log, call, expr, pass1, pass2, window, ui>>

\* _find_intersections over count points of the window
FindIntersections(expr_a, expr_b, count) ==
    /\ graph.n < MaxGraphCalls
    /\ \E xs \in { _generate_points(window.xmin, window.xmax, count) } :
       \E r \in { _find_intersections(expr_a, expr_b, xs, history, memory) } :
            /\ r.raised # "unmodelled"
            /\ graph' = GraphCall("_find_intersections", expr_a, expr_b, xs, r.raised,
                                  <<>>, r.points, graph.n + 1)
            /\ memory' = r.memory
            /\ history' = r.history
            /\ UNCHANGED <<history_limit, log, call, expr, pass1, pass2, window, ui>>

GraphNext ==
    \/ \E xmin, xmax, ymin, ymax \in WindowBounds : SetWindow(xmin, xmax, ymin, ymax)
    \/ AutoWindow
    \/ \E e \in SeriesExpressions, count \in 1..MaxSamples : EvaluateSeries(e, count)
    \/ \E a, b \in PairExpressions, count \in 1..MaxSamples : FindIntersections(a, b, count)

GraphSpec == GraphInit /\ [][GraphNext]_vars

(***************************************************************************)
(* The window alone: a GraphingEngine constructed with a GraphWindow built *)
(* from any four floats, then set_window and auto_window.                  *)
(***************************************************************************)
\* the floats a GraphWindow is built from and set_window is called with
WindowInputs == { IntRat(-10), IntRat(0), NaN }

WindowInit ==
    /\ history_limit = MaxLimit
    /\ memory = IntRat(0)
    /\ history = <<>>
    /\ log = <<>>
    /\ call = CallRecord("init", <<>>, NoResult, 0)
    /\ expr = <<>> /\ pass1 = NoPass /\ pass2 = NoPass
    /\ window \in { GraphWindow(xmin, xmax, ymin, ymax) :
                         xmin \in WindowInputs, xmax \in WindowInputs,
                         ymin \in WindowInputs, ymax \in WindowInputs }
    /\ graph = NoGraphCall /\ ui = CalculatorUI

WindowNext ==
    \/ \E xmin, xmax, ymin, ymax \in WindowInputs : SetWindow(xmin, xmax, ymin, ymax)
    \/ AutoWindow

WindowSpec == WindowInit /\ [][WindowNext]_vars

(***************************************************************************)
(* Properties of the window.                                               *)
(***************************************************************************)
\* C11: a call of set_window with xmin >= xmax or ymin >= ymax raises the
\* WINDOW error and leaves the stored window as it was before the call,
\* also when only one of the two axes is invalid.
InvalidWindowRejected ==
    [][(/\ graph'.op = "set_window"
        /\ graph'.n = graph.n + 1
        /\ \/ FloatGe(graph'.xs[1], graph'.xs[2])
           \/ FloatGe(graph'.xs[3], graph'.xs[4]))
          => (graph'.raised = ErrWindow /\ window' = window)]_vars

\* set_window(-10, 0, 0, -10), whose y axis alone is invalid, has failed on
\* an engine whose window is not the default one
OneAxisRejected ==
    /\ graph.op = "set_window"
    /\ graph.xs = <<IntRat(-10), IntRat(0), IntRat(0), IntRat(-10)>>
    /\ graph.raised = ErrWindow
    /\ window = GraphWindow(IntRat(-10), IntRat(0), IntRat(-10), IntRat(0))

\* C12: every GraphWindow that exists, built directly, handed to the
\* constructor of GraphingEngine or installed by set_window or auto_window,
\* has xmin < xmax and ymin < ymax.
WindowWellFormed ==
    /\ RatLess(window.xmin, window.xmax)
    /\ RatLess(window.ymin, window.ymax)

(***************************************************************************)
(* Properties of the graphing engine.                                      *)
(***************************************************************************)
\* C3: _evaluate_series returns one value per point of the domain, whatever
\* fails at a point: no exception leaves the call.
SeriesNeverAborts ==
    graph.op = "_evaluate_series" =>
        /\ graph.raised = "none"
        /\ Len(graph.values) = Len(graph.xs)

\* C10: for x and -x sampled at N >= 2 points of [-10, 10],
\* _find_intersections returns exactly one point, within one step of (0, 0).
OneIntersectionAtOrigin ==
    (/\ graph.op = "_find_intersections"
     /\ graph.expr_a = XAlone
     /\ graph.expr_b = MinusX
     /\ Len(graph.xs) >= 2
     /\ graph.xs[1] = IntRat(-10)
     /\ graph.xs[Len(graph.xs)] = IntRat(10))
        => /\ graph.raised = "none"
           /\ Len(graph.points) = 1
           /\ LET step == RatDiv(IntRat(20), IntRat(Len(graph.xs) - 1)) IN
              /\ ~RatLess(step, RatAbs(graph.points[1][1]))
              /\ ~RatLess(step, RatAbs(graph.points[1][2]))

\* C15: _find_intersections is symmetric in its two expressions: over the
\* same domain, the search for (b, a) returns as many points as the search
\* for (a, b), at the same x, also when a sample has a difference of zero.
IntersectionsSymmetric ==
    (graph.op = "_find_intersections" /\ graph.raised = "none") =>
        \A swapped \in { _find_intersections(graph.expr_b, graph.expr_a, graph.xs,
                                             history, memory) } :
            \/ swapped.raised = "unmodelled"
            \/ /\ swapped.raised = "none"
               /\ Len(swapped.points) = Len(graph.points)
               /\ \A k \in 1..Len(graph.points) :
                      swapped.points[k][1] = graph.points[k][1]

(***************************************************************************)
(* Expressions that reach the engine: evaluate, evaluate_function, the     *)
(* sampling of a series and the search for intersections, given text that  *)
(* follows the attributes of the objects eval hands to it.                 *)
(***************************************************************************)
\* abs.__self__.__import__("sys")._getframe(1).f_locals.get("self")
\*     .clear_memory()
ReachClearMemory ==
    <<"a", "b", "s", ".", "_", "_", "s", "e", "l", "f", "_", "_", ".", "_",
      "_", "i", "m", "p", "o", "r", "t", "_", "_", "(", "\"", "s", "y", "s",
      "\"", ")", ".", "_", "g", "e", "t", "f", "r", "a", "m", "e", "(", "1",
      ")", ".", "f", "_", "l", "o", "c", "a", "l", "s", ".", "g", "e", "t",
      "(", "\"", "s", "e", "l", "f", "\"", ")", ".", "c", "l", "e", "a", "r",
      "_", "m", "e", "m", "o", "r", "y", "(", ")">>

\* abs.__self__.__import__("sys")._getframe(1).f_locals.get("self")
\*     .history.clear()
ReachHistoryClear ==
    <<"a", "b", "s", ".", "_", "_", "s", "e", "l", "f", "_", "_", ".", "_",
      "_", "i", "m", "p", "o", "r", "t", "_", "_", "(", "\"", "s", "y", "s",
      "\"", ")", ".", "_", "g", "e", "t", "f", "r", "a", "m", "e", "(", "1",
      ")", ".", "f", "_", "l", "o", "c", "a", "l", "s", ".", "g", "e", "t",
      "(", "\"", "s", "e", "l", "f", "\"", ")", ".", "h", "i", "s", "t", "o",
      "r", "y", ".", "c", "l", "e", "a", "r", "(", ")">>

\* the expressions evaluated
ReachExpressions == { ThreePlusFour, ReachClearMemory, ReachHistoryClear }

\* the expressions sampled
ReachSeriesExpressions == { ReachClearMemory, ReachHistoryClear }

\* the pairs of expressions intersected
ReachPairs == { <<XAlone, ReachClearMemory>>, <<ReachHistoryClear, XAlone>> }

ReachNext ==
    \/ \E e \in ReachExpressions : Evaluate(e)
    \/ \E e \in ReachSeriesExpressions : EvaluateFunction(e, IntRat(0))
    \/ AddToMemory(IntRat(1))
    \/ ClearMemory
    \/ \E e \in ReachSeriesExpressions : EvaluateSeries(e, MaxSamples)
    \/ \E pair \in ReachPairs : FindIntersections(pair[1], pair[2], MaxSamples)

ReachSpec == GraphInit /\ [][ReachNext]_vars

(***************************************************************************)
(* Properties of the engine's state under evaluation.                      *)
(***************************************************************************)
\* C13: the memory changes only in add_to_memory, subtract_from_memory and
\* clear_memory; evaluate, evaluate_function, the sampling of a series and
\* the search for intersections leave it unchanged, whatever the expression.
MemoryChangesOnlyByMemoryOperations ==
    [][memory' # memory =>
          /\ call'.n = call.n + 1
          /\ call'.op \in {"add_to_memory", "subtract_from_memory", "clear_memory"}]_vars

\* C14: evaluate_function never changes the history, whether it returns or
\* fails; so the sampling of a series and the search for intersections
\* leave the history unchanged.
EvaluateFunctionKeepsHistory ==
    [][(\/ (call'.n = call.n + 1 /\ call'.op = "evaluate_function")
        \/ graph'.n = graph.n + 1)
          => history' = history]_vars

(***************************************************************************)
(* The names an expression resolves: one call of evaluate or of            *)
(* evaluate_function on a fresh engine, the expression being a use of one  *)
(* name.                                                                   *)
(***************************************************************************)
\* the names tried
Names ==
    { <<"s", "i", "n">>, <<"c", "o", "s">>, <<"t", "a", "n">>, <<"a", "s", "i", "n">>,
      <<"a", "c", "o", "s">>, <<"a", "t", "a", "n">>, <<"s", "q", "r", "t">>,
      <<"f", "a", "c", "t", "o", "r", "i", "a", "l">>, <<"a", "b", "s">>,
      <<"e", "x", "p">>, <<"l", "n">>, <<"l", "o", "g">>, <<"p", "o", "w">>,
      <<"p", "i">>, <<"e">>, <<"M">>, <<"x">>, <<"l", "o", "g", "1", "0">>,
      <<"f", "a", "b", "s">>, <<"m", "a", "t", "h">>, <<"i", "n", "t">>,
      <<"f", "l", "o", "a", "t">>, <<"q">>, <<"y">>,
      <<"_", "_", "b", "u", "i", "l", "t", "i", "n", "s", "_", "_">>, <<"PI">> }

\* what follows the name in the expression
Uses ==
    { <<>>, <<"(", "0", ")">>, <<"(", "1", ")">>, <<"(", "2", ",", "3", ")">>,
      <<"+", "1">>, <<".", "f", "a", "c", "t", "o", "r", "i", "a", "l", "(", "3", ")">> }

SymbolInit ==
    /\ history_limit \in 0..MaxLimit
    /\ memory \in Amounts
    /\ history = <<>>
    /\ log = <<>>
    /\ call = CallRecord("init", <<>>, NoResult, 0)
    /\ EngineIdle

\* evaluate(name + use) on the fresh engine
Resolve(name, use) ==
    /\ call.op = "init"
    /\ \E r \in { evaluate(name \o use, history, history_limit, memory) } :
            /\ r.raised # "unmodelled"
            /\ history' = r.history
            /\ log' = IF r.raised = "none"
                      THEN Append(log, EvaluationResult(name \o use, r.value)) ELSE log
            /\ call' = CallRecord("evaluate", name \o use, r, call.n + 1)
            /\ memory' = r.memory
            /\ expr' = name
            /\ UNCHANGED <<history_limit, pass1, pass2, window, graph, ui>>

\* evaluate_function(name + use, x) on the fresh engine
ResolveSampled(name, use, x) ==
    /\ call.op = "init"
    /\ \E r \in { evaluate_function(name \o use, x, history, memory) },
          after \in { after_evaluate_function(name \o use, x, history, memory) } :
            /\ r.k # "unmodelled"
            /\ memory' = after.memory
            /\ history' = after.history
            /\ call' = CallRecord("evaluate_function", name \o use,
                            [raised |-> IF r.k = "raise" THEN r.fn ELSE "none",
                             value |-> IF r.k = "raise" THEN <<>> ELSE FormatValue(r),
                             cleaned |-> prepare_expression(name \o use, history).text,
                             exc |-> IF r.k = "raise" THEN r.fn ELSE "none"],
                            call.n + 1)
            /\ expr' = name
            /\ UNCHANGED <<history_limit, log, pass1, pass2, window, graph, ui>>

SymbolNext ==
    \/ \E name \in Names, use \in Uses : Resolve(name, use)
    \/ \E name \in Names, use \in Uses, x \in XValues : ResolveSampled(name, use, x)

SymbolSpec == SymbolInit /\ [][SymbolNext]_vars

(***************************************************************************)
(* Properties of the symbol table.                                         *)
(***************************************************************************)
\* the names of the specification's symbol table; x only in a sampling call
ListedNames(op) ==
    { <<"p", "i">>, <<"PI">>, <<"e">>, <<"s", "i", "n">>, <<"c", "o", "s">>,
      <<"t", "a", "n">>, <<"a", "s", "i", "n">>, <<"a", "c", "o", "s">>,
      <<"a", "t", "a", "n">>, <<"s", "q", "r", "t">>,
      <<"f", "a", "c", "t", "o", "r", "i", "a", "l">>, <<"a", "b", "s">>,
      <<"e", "x", "p">>, <<"l", "n">>, <<"l", "o", "g">>, <<"p", "o", "w">>, <<"M">> }
        \cup (IF op = "evaluate_function" THEN { <<"x">> } ELSE {})

\* those names and log10, fabs, math and __builtins__
ListedAndExtraNames(op) ==
    ListedNames(op)
        \cup { <<"l", "o", "g", "1", "0">>, <<"f", "a", "b", "s">>, <<"m", "a", "t", "h">>,
               <<"_", "_", "b", "u", "i", "l", "t", "i", "n", "s", "_", "_">> }

MaxPresses == 3

\* the longest expression the appending keys build
MaxEntry == 3

\* history_limit of the TI84Engine() the window constructs
DefaultHistoryLimit == 20

\* the part of _on_button_press before cmd(): original is the bg the button
\* has now, and the callback that configures it back is due after those
\* registered before it
_on_button_press(u, label) ==
    [u EXCEPT !.bg[label] = HighlightColour,
              !.pending = Append(@, [button |-> label, bg |-> u.bg[label]]),
              !.presses = @ + 1]

_append_to_expression(u, text) ==
    [u EXCEPT !.cursor = 0,
              !.expression = u.expression \o text,
              !.display = Shown(u.expression \o text)]

_clear_expression(u) ==
    [u EXCEPT !.cursor = 0, !.expression = <<>>, !.display = Shown(<<"0">>)]

_backspace(u) ==
    LET rest == SubSeq(u.expression, 1, Len(u.expression) - 1) IN
    [u EXCEPT !.cursor = 0,
              !.expression = rest,
              !.display = Shown(IF rest = <<>> THEN <<"0">> ELSE rest)]

_history_previous(u, hist) ==
    IF hist = <<>> THEN u
    ELSE LET index == IF u.cursor = 0 THEN Len(hist) - 1
                      ELSE IF u.cursor - 2 > 0 THEN u.cursor - 2 ELSE 0
         IN [u EXCEPT !.cursor = index + 1,
                      !.expression = hist[index + 1].expression,
                      !.display = Shown(hist[index + 1].expression)]

\* the window after _evaluate_expression, r being what engine.evaluate did
_evaluate_expression(u, r) ==
    IF r.raised # "none" THEN [u EXCEPT !.display = ShownError(r.raised)]
    ELSE [u EXCEPT !.display = Shown(r.value), !.expression = r.value, !.cursor = 0]

UIInit ==
    /\ history_limit = DefaultHistoryLimit
    /\ memory = IntRat(0)
    /\ history = <<>>
    /\ log = <<>>
    /\ call = CallRecord("init", <<>>, NoResult, 0)
    /\ EngineIdle

\* a press of 7 or of +
PressAppend(label) ==
    /\ ui.presses < MaxPresses
    /\ Len(ui.expression) < MaxEntry
    /\ ui' = _append_to_expression(_on_button_press(ui, label), <<label>>)
    /\ UNCHANGED <<history_limit, memory, history, call, log, expr, pass1, pass2, window,
                   graph>>

PressDel ==
    /\ ui.presses < MaxPresses
    /\ ui' = _backspace(_on_button_press(ui, "DEL"))
    /\ UNCHANGED <<history_limit, memory, history, call, log, expr, pass1, pass2, window,
                   graph>>

PressClear ==
    /\ ui.presses < MaxPresses
    /\ ui' = _clear_expression(_on_button_press(ui, "CLEAR"))
    /\ UNCHANGED <<history_limit, memory, history, call, log, expr, pass1, pass2, window,
                   graph>>

PressUp ==
    /\ ui.presses < MaxPresses
    /\ ui' = _history_previous(_on_button_press(ui, "UP"), history)
    /\ UNCHANGED <<history_limit, memory, history, call, log, expr, pass1, pass2, window,
                   graph>>

\* ENTER with nothing entered: _evaluate_expression returns at once
PressEnterEmpty ==
    /\ ui.presses < MaxPresses
    /\ ui.expression = <<>>
    /\ ui' = _on_button_press(ui, "ENTER")
    /\ UNCHANGED <<history_limit, memory, history, call, log, expr, pass1, pass2, window,
                   graph>>

PressEnter ==
    /\ ui.presses < MaxPresses
    /\ ui.expression # <<>>
    /\ \E r \in { evaluate(ui.expression, history, history_limit, memory) } :
            /\ r.raised # "unmodelled"
            /\ ui' = _evaluate_expression(_on_button_press(ui, "ENTER"), r)
            /\ history' = r.history
            /\ memory' = r.memory
            /\ log' = IF r.raised = "none"
                      THEN Append(log, EvaluationResult(ui.expression, r.value)) ELSE log
            /\ call' = CallRecord("evaluate", ui.expression, r, call.n + 1)
    /\ UNCHANGED <<history_limit, expr, pass1, pass2, window, graph>>

\* the callback that is due first runs: button.configure(bg=original)
RestoreFires ==
    /\ ui.pending # <<>>
    /\ ui' = [ui EXCEPT !.bg[Head(ui.pending).button] = Head(ui.pending).bg,
                        !.pending = Tail(@)]
    /\ UNCHANGED <<history_limit, memory, history, call, log, expr, pass1, pass2, window,
                   graph>>

UINext ==
    \/ \E label \in {"7", "+"} : PressAppend(label)
    \/ PressDel
    \/ PressClear
    \/ PressUp
    \/ PressEnterEmpty
    \/ PressEnter
    \/ RestoreFires

UISpec == UIInit /\ [][UINext]_vars

\* C16: once every callback registered by a press has run, each button has
\* the colour it was created with, also when a button was pressed again
\* before its callback had run.
ButtonsRestored ==
    ui.pending = <<>> => \A b \in Buttons : ui.bg[b] = KeypadColour

====
